---- MODULE Spec2Model ----
(***************************************************************************)
(* A model of smp::small_unique_ptr (src/src/small_unique_ptr.hpp): the    *)
(* compile-time layout policy (buffer_size, buffer_alignment,              *)
(* is_always_heap_allocated, the small_unique_ptr_base specialisations)    *)
(* and the run-time owner protocol (factory, move, swap, reset, destroy).  *)
(***************************************************************************)
EXTENDS Integers, Sequences, FiniteSets, TLC

VARIABLES
    lt,      \* layout: the owned type under inspection (its attributes)
    lsize,   \* layout: the Size template argument
    lres,    \* layout: <<the layout computed for (lt, lsize)>>, or <<>>
    mode,    \* "rt" (run time) or "ce" (constant evaluation)
    family,  \* the type hierarchy the run-time objects are drawn from
    owner,   \* owner slot -> small_unique_ptr object (or a dead slot)
    heap,    \* heap allocation id -> allocation record
    errs,    \* undefined behaviour met so far (ghost); the run stops there
    last,    \* the last operation and what it left behind (ghost)
    twin     \* the same operations run under constant evaluation (SpecTwin)

vars == <<lt, lsize, lres, mode, family, owner, heap, errs, last, twin>>

None == "none"

(***************************************************************************)
(* Bounds of the model.                                                    *)
(***************************************************************************)
WordBits     == 12   \* width of the modelled std::size_t
MaxTypeSize  == 72   \* largest sizeof(T) inspected by the layout policy
MaxAlignLog  == 6    \* largest alignof(T) inspected is 2^MaxAlignLog
MaxSizeWords == 16   \* largest Size inspected is MaxSizeWords pointers
NumOwners    == 2    \* owner slots
MaxHeap      == 2    \* heap allocations made in one behaviour
MaxVal       == 2    \* distinct constructor arguments

(***************************************************************************)
(* Program constants.                                                      *)
(***************************************************************************)
PtrSize == 8                     \* sizeof(T*), sizeof(move_fn) on the 64 bit target
default_small_ptr_size == 64

Pow2(k) == 2 ^ k
Word    == Pow2(WordBits)

(***************************************************************************)
(* Unsigned arithmetic of width WordBits.                                  *)
(***************************************************************************)
USub(a, b) == (a - b + Word) % Word
UNeg(a)    == (Word - 1) - a                  \* ~a

RECURSIVE BitAnd(_, _)
BitAnd(a, b) ==
    IF a = 0 \/ b = 0 THEN 0
    ELSE (IF a % 2 = 1 /\ b % 2 = 1 THEN 1 ELSE 0) + 2 * BitAnd(a \div 2, b \div 2)

min(left, right) == IF left < right THEN left ELSE right

max(left, right) == IF left < right THEN right ELSE left

max_pow2_factor_identity(n) == n

\* n & (~n + 1)
max_pow2_factor(n) == BitAnd(n, (UNeg(n) + 1) % Word)

RoundUp(n, a) == ((n + a - 1) \div a) * a

(***************************************************************************)
(* Layout policy.  A type T is a record of the attributes the templates    *)
(* read: size = sizeof(remove_extent_t<T>), align = alignof(same),         *)
(* poly = is_polymorphic, vdtor = has_virtual_destructor, vmove =          *)
(* has_virtual_move, nothrow = is_nothrow_move_constructible, abstract =   *)
(* is_abstract, array = is_array (T is E[], the attributes are E's).       *)
(* An abstract class is not constructible, so nothrow is false for it.     *)
(***************************************************************************)
has_virtual_destructor(T) == T.vdtor /\ ~T.array

is_polymorphic(T) == T.poly /\ ~T.array

has_virtual_move(T) == T.vmove /\ T.poly /\ ~T.array

buffer_size_always_callback(T, S) ==
    IF S = PtrSize THEN 0
    ELSE IF T.array THEN USub(S, PtrSize)
    ELSE LET dynamic_buffer_size == USub(USub(S, PtrSize), PtrSize)
             static_buffer_size  == min(T.size, USub(S, PtrSize))
         IN  IF has_virtual_destructor(T) THEN dynamic_buffer_size ELSE static_buffer_size

buffer_size(T, S) ==
    IF S = PtrSize THEN 0
    ELSE IF T.array THEN USub(S, PtrSize)
    ELSE LET dynamic_buffer_size ==
                 USub(USub(S, PtrSize), (IF has_virtual_move(T) THEN 0 ELSE 1) * PtrSize)
             static_buffer_size  == min(T.size, USub(S, PtrSize))
         IN  IF has_virtual_destructor(T) THEN dynamic_buffer_size ELSE static_buffer_size

buffer_alignment_halved(T, S) ==
    LET dynamic_buffer_alignment == max_pow2_factor(S) \div 2
        static_buffer_alignment  == max_pow2_factor(min(T.align, S)) \div 2
    IN  IF has_virtual_destructor(T) THEN dynamic_buffer_alignment ELSE static_buffer_alignment

buffer_alignment(T, S) ==
    LET dynamic_buffer_alignment == max_pow2_factor(S)
        static_buffer_alignment  == max_pow2_factor(min(T.align, S))
    IN  IF has_virtual_destructor(T) THEN dynamic_buffer_alignment ELSE static_buffer_alignment

is_always_heap_allocated_ignores_size(T, S) ==
    \/ T.align > buffer_alignment(T, S)
    \/ (~T.nothrow /\ ~T.abstract)

is_always_heap_allocated_abstract_too(T, S) ==
    \/ T.size  > buffer_size(T, S)
    \/ T.align > buffer_alignment(T, S)
    \/ ~T.nothrow

is_always_heap_allocated(T, S) ==
    \/ T.size  > buffer_size(T, S)
    \/ T.align > buffer_alignment(T, S)
    \/ (~T.nothrow /\ ~T.abstract)

\* Which specialisation of small_unique_ptr_base<T, Size> is selected.
base_variant(T, S) ==
    IF is_always_heap_allocated(T, S) THEN "heap"
    ELSE IF ~is_polymorphic(T) /\ ~T.array THEN "static"
    ELSE IF has_virtual_move(T) THEN "hook"
    ELSE IF T.array THEN "array"
    ELSE "callback"

array_size(T, S) == buffer_size(T, S) \div T.size

\* sizeof(buffer_t) of the selected specialisation.
sizeof_buffer_t(T, S) ==
    CASE base_variant(T, S) = "heap"     -> 0
      [] base_variant(T, S) = "static"   -> T.size
      [] base_variant(T, S) = "array"    -> array_size(T, S) * T.size
      [] OTHER                           -> buffer_size(T, S)

\* alignment of the buffer_ member of the selected specialisation.
alignof_buffer_(T, S) ==
    CASE base_variant(T, S) = "heap"     -> 1
      [] base_variant(T, S) = "static"   -> T.align
      [] base_variant(T, S) = "array"    -> T.align
      [] OTHER                           -> buffer_alignment(T, S)

has_move_field(T, S) == base_variant(T, S) = "callback"

alignof_small_unique_ptr(T, S) == max(alignof_buffer_(T, S), PtrSize)

\* sizeof(small_unique_ptr<T, Size>): the members in declaration order
\* (buffer_, data_, move_ when it is a field), each at its alignment, the
\* whole rounded up to the alignment of the struct.
sizeof_small_unique_ptr(T, S) ==
    LET data_off == RoundUp(sizeof_buffer_t(T, S), PtrSize)
        move_off == data_off + PtrSize
        end      == IF has_move_field(T, S) THEN move_off + PtrSize ELSE move_off
    IN  RoundUp(end, alignof_small_unique_ptr(T, S))

stack_buffer_size(T, S) ==
    IF is_always_heap_allocated(T, S) THEN 0 ELSE sizeof_buffer_t(T, S)

(***************************************************************************)
(* The types the layout policy is inspected on.                            *)
(***************************************************************************)
Aligns == { Pow2(k) : k \in 0..MaxAlignLog }

Budgets == { PtrSize * k : k \in 1..MaxSizeWords }

TypeAttrs ==
    { t \in [ size : 1..MaxTypeSize, align : Aligns, poly : BOOLEAN, vdtor : BOOLEAN,
              vmove : BOOLEAN, nothrow : BOOLEAN, abstract : BOOLEAN, array : BOOLEAN ] :
        /\ t.size % t.align = 0
        /\ (t.vdtor \/ t.vmove \/ t.abstract) => t.poly
        /\ t.poly => (t.size >= PtrSize /\ t.align >= PtrSize)
        /\ t.array => ~t.abstract
        /\ t.abstract => ~t.nothrow }

Layout(T, S) ==
    [ B       |-> buffer_size(T, S),
      A       |-> buffer_alignment(T, S),
      heap    |-> is_always_heap_allocated(T, S),
      variant |-> base_variant(T, S),
      bufsz   |-> stack_buffer_size(T, S),
      size    |-> sizeof_small_unique_ptr(T, S),
      align   |-> alignof_small_unique_ptr(T, S) ]

OwnerIdle ==
    /\ mode = "rt" /\ family = None /\ owner = <<>> /\ heap = <<>>
    /\ errs = {} /\ last = [ op |-> None, notes |-> {} ] /\ twin = <<>>

InitLayout ==
    /\ lt \in TypeAttrs
    /\ lsize \in Budgets
    /\ lres = <<>>
    /\ OwnerIdle

\* Instantiate small_unique_ptr<lt, lsize>.
Instantiate ==
    /\ lres = <<>>
    /\ lres' = <<Layout(lt, lsize)>>
    /\ UNCHANGED <<lt, lsize, mode, family, owner, heap, errs, last, twin>>

NextLayout == Instantiate

SpecLayout == InitLayout /\ [][NextLayout]_vars


(***************************************************************************)
(* The types of the test suite (test/small_unique_ptr.cpp, lines 13-72,    *)
(* 695-699, 772-775 and 797-798) with the attributes the 64 bit target     *)
(* gives them.  IShape, HSmall and HBig are the hierarchy the README       *)
(* (l.194-197) permits beside them: the derived classes declare            *)
(* small_unique_ptr_move, their abstract base does not.                    *)
(***************************************************************************)
NonPoly(sz) ==
    [ size |-> sz, align |-> 1, poly |-> FALSE, vdtor |-> FALSE, vmove |-> FALSE,
      nothrow |-> TRUE, abstract |-> FALSE, array |-> FALSE ]

Poly(sz, hook) ==
    [ size |-> sz, align |-> PtrSize, poly |-> TRUE, vdtor |-> TRUE, vmove |-> hook,
      nothrow |-> TRUE, abstract |-> FALSE, array |-> FALSE ]

ArrayOf(T) == [ T EXCEPT !.array = TRUE ]

Abstract(T) == [ T EXCEPT !.abstract = TRUE, !.nothrow = FALSE ]

Attr(t) ==
    CASE t = "SmallPOD"       -> NonPoly(1)
      [] t = "LargePOD"       -> NonPoly(128)
      [] t = "SmallPOD[]"     -> ArrayOf(NonPoly(1))
      [] t = "LargePOD[]"     -> ArrayOf(NonPoly(128))
      [] t = "Base"           -> Poly(8, FALSE)
      [] t = "SmallDerived"   -> Poly(48, FALSE)
      [] t = "LargeDerived"   -> Poly(80, FALSE)
      [] t = "BaseIntrusive"  -> Poly(8, TRUE)
      [] t = "SmallIntrusive" -> Poly(48, TRUE)
      [] t = "LargeIntrusive" -> Poly(80, TRUE)
      [] t = "B"              -> Poly(16, FALSE)
      [] t = "D"              -> Poly(24, FALSE)
      [] t = "E"              -> Poly(32, FALSE)
      [] t = "VBase"          -> Poly(16, FALSE)
      [] t = "VMiddle1"       -> Poly(24, FALSE)
      [] t = "VDerived"       -> Poly(40, FALSE)
      [] t = "ABase"          -> Abstract(Poly(8, FALSE))
      [] t = "ADerived"       -> Poly(8, FALSE)
      [] t = "IShape"         -> Abstract(Poly(8, FALSE))
      [] t = "HSmall"         -> Poly(16, TRUE)
      [] t = "HBig"           -> Poly(56, TRUE)

\* The proper bases of each type that an owner can view it through.
Bases(t) ==
    CASE t = "SmallDerived"   -> {"Base"}
      [] t = "LargeDerived"   -> {"Base"}
      [] t = "SmallIntrusive" -> {"BaseIntrusive"}
      [] t = "LargeIntrusive" -> {"BaseIntrusive"}
      [] t = "D"              -> {"B"}
      [] t = "E"              -> {"B", "D"}
      [] t = "VMiddle1"       -> {"VBase"}
      [] t = "VDerived"       -> {"VBase", "VMiddle1"}
      [] t = "ADerived"       -> {"ABase"}
      [] t = "HSmall"         -> {"IShape"}
      [] t = "HBig"           -> {"IShape"}
      [] OTHER                -> {}

\* Byte offset of the base subobject b inside a complete object of type t
\* (struct D : A, B and struct E : C, D; A and C hold one vptr each; the
\* virtual base VBase lies behind the members of the most derived object).
Offset(t, b) ==
    CASE t = "D" /\ b = "B"               -> 8
      [] t = "E" /\ b = "D"               -> 8
      [] t = "E" /\ b = "B"               -> 16
      [] t = "VMiddle1" /\ b = "VBase"    -> 8
      [] t = "VDerived" /\ b = "VBase"    -> 24
      [] OTHER                            -> 0

\* static_cast<T*>(p) for a U* p into an object of dynamic type c (U itself
\* when the storage holds no object): the bytes the address moves by.
CastDelta(c, U, T) ==
    LET d == IF c = None THEN U ELSE c
    IN  Offset(d, T) - Offset(d, U)

Families ==
    [ pod        |-> {"SmallPOD"},
      largepod   |-> {"LargePOD"},
      array      |-> {"SmallPOD[]"},
      largearray |-> {"LargePOD[]"},
      poly       |-> {"Base", "SmallDerived", "LargeDerived"},
      intrusive  |-> {"BaseIntrusive", "SmallIntrusive", "LargeIntrusive"},
      multi      |-> {"B", "D", "E"},
      virtual    |-> {"VBase", "VMiddle1", "VDerived"},
      abstract   |-> {"ABase", "ADerived"},
      mixed      |-> {"IShape", "HSmall", "HBig"} ]

FamilyNames == DOMAIN Families

TypeNames == UNION { Families[f] : f \in FamilyNames }

Size == default_small_ptr_size

\* small_unique_ptr<t, Size> of every type of the suite.
Instance == [ t \in TypeNames |-> Layout(Attr(t), Size) ]

Vals == 1..MaxVal

is_proper_base_of(base, derived) == base \in Bases(derived)

\* cv-qualification is not modelled: every view is unqualified, so one view
\* is never less cv-qualified than another.
is_pointer_convertible(From, To) ==
    \/ (is_proper_base_of(To, From) /\ has_virtual_destructor(Attr(To)))
    \/ From = To

(***************************************************************************)
(* Memory.  A pointer is null, an address inside the buffer of an owner    *)
(* slot (slot 0 is the temporary of swap), or an address inside a heap     *)
(* allocation; off is the byte offset from the start of that storage.      *)
(***************************************************************************)
NullPtr == [ k |-> "null", id |-> 0, off |-> 0 ]

BufPtr(i, off) == [ k |-> "buf", id |-> i, off |-> off ]

HeapPtr(h, off) == [ k |-> "heap", id |-> h, off |-> off ]

\* An object: its dynamic type c, its value v, the number n of elements
\* (1 for a scalar), its state st ("none": no object alive in the storage,
\* "live", "moved": alive and moved from) and, as ghost state, where it
\* comes from ("make": a factory, "raw": a new-expression of the caller,
\* "junk": constructed from storage that held no object).
NoObj == [ c |-> None, v |-> 0, n |-> 0, st |-> "none", src |-> None ]

Obj(c, v, n, src) == [ c |-> c, v |-> v, n |-> n, st |-> "live", src |-> src ]

\* An owner: view is its type T, base the small_unique_ptr_base<T, Size> it
\* derives from, data and move its fields data_ and move_, buf the object
\* in its buffer_.
NoBase == [ B |-> 0, A |-> 1, heap |-> TRUE, variant |-> "heap", bufsz |-> 0, size |-> PtrSize,
            align |-> PtrSize ]

DeadOwner ==
    [ alive |-> FALSE, view |-> None, base |-> NoBase, data |-> NullPtr, move |-> None,
      buf |-> NoObj ]

\* A heap allocation: unused, live or freed; dtor: the destructor of the
\* object has been run in place without freeing the storage.
NoAlloc == [ st |-> "unused", obj |-> NoObj, dtor |-> FALSE ]

Slots == 1..NumOwners

HeapIds == 1..MaxHeap

Temp == 0

\* The machine state the operations transform.  errs: undefined behaviour
\* (a read of storage that holds no object, a second destruction, a bad
\* delete ...); notes: what the operation skipped without leaving defined
\* behaviour (an object whose destructor never ran); mode: what
\* std::is_constant_evaluated() answers.
Machine == [ owner |-> owner, heap |-> heap, errs |-> errs, notes |-> {}, mode |-> mode ]

Err(M, e) == [ M EXCEPT !.errs = @ \cup {e} ]

Note(M, e) == [ M EXCEPT !.notes = @ \cup {e} ]

VariantOf(M, i) == M.owner[i].base.variant

is_stack_allocated_ignores_mode(M, i) ==
    LET o == M.owner[i]
        v == VariantOf(M, i)
    IN  CASE v = "heap"     -> FALSE
          [] v = "static"   -> o.data # NullPtr
          [] v = "hook"     -> /\ o.data.k = "buf" /\ o.data.id = i
                               /\ 0 <= o.data.off /\ o.data.off < o.base.B
          [] v = "array"    -> o.data = BufPtr(i, 0)
          [] v = "callback" -> o.move # None

\* small_unique_ptr_base<T, Size>::is_stack_allocated of each specialisation.
is_stack_allocated(M, i) ==
    LET o == M.owner[i]
        v == VariantOf(M, i)
    IN  CASE v = "heap"     -> FALSE
          [] v = "static"   -> M.mode # "ce" /\ o.data # NullPtr
          [] v = "hook"     -> /\ M.mode # "ce"
                               /\ o.data.k = "buf" /\ o.data.id = i
                               /\ 0 <= o.data.off /\ o.data.off < o.base.B
          [] v = "array"    -> M.mode # "ce" /\ o.data = BufPtr(i, 0)
          [] v = "callback" -> o.move # None

\* this->move_ = m: a field of the callback specialisation, ignore_t elsewhere.
SetMove(M, i, m) ==
    IF VariantOf(M, i) = "callback" THEN [ M EXCEPT !.owner[i].move = m ] ELSE M

SetData(M, i, p) == [ M EXCEPT !.owner[i].data = p ]

\* The object a pointer designates and whether the pointer designates the
\* view subobject of a live object of it.
Pointee(M, p) ==
    CASE p.k = "buf"  -> M.owner[p.id].buf
      [] p.k = "heap" -> IF M.heap[p.id].st = "live" /\ ~M.heap[p.id].dtor
                         THEN M.heap[p.id].obj ELSE NoObj
      [] OTHER        -> NoObj

ElemType(t) ==
    CASE t = "SmallPOD[]" -> "SmallPOD"
      [] t = "LargePOD[]" -> "LargePOD"
      [] OTHER            -> t

\* What *p (or p[k]) observes through owner i: the dynamic type and value,
\* or "junk" when data_ does not designate the view of a live object.
Deref(M, i) ==
    LET o   == M.owner[i]
        obj == Pointee(M, o.data)
    IN  IF obj.st = "none" THEN [ c |-> "junk", v |-> 0 ]
        ELSE IF ~is_pointer_convertible(ElemType(obj.c), ElemType(o.view))
                \/ o.data.off # Offset(obj.c, o.view)
        THEN [ c |-> "junk", v |-> 0 ]
        ELSE [ c |-> obj.c, v |-> obj.v ]

(***************************************************************************)
(* Destruction.                                                            *)
(***************************************************************************)
\* std::destroy_at(p) / std::destroy(p, p + n): the destructor runs in place.
destroy_at(M, p) ==
    CASE p.k = "buf"  -> IF M.owner[p.id].buf.st = "none"
                         THEN Err(M, "destroy_dead")
                         ELSE [ M EXCEPT !.owner[p.id].buf = NoObj ]
      [] p.k = "heap" -> IF M.heap[p.id].st # "live" \/ M.heap[p.id].dtor
                         THEN Err(M, "destroy_dead")
                         ELSE Note([ M EXCEPT !.heap[p.id].dtor = TRUE ], "dtor_on_heap")
      [] OTHER        -> Err(M, "destroy_null")

\* delete p / delete[] p.
delete(M, p) ==
    CASE p.k = "buf"  -> Err(M, "delete_buffer")
      [] p.k = "heap" -> IF M.heap[p.id].st = "live"
                         THEN LET N == [ M EXCEPT !.heap[p.id] = [ st |-> "freed", obj |-> NoObj,
                                                                    dtor |-> FALSE ] ]
                              IN  IF M.heap[p.id].dtor THEN Err(N, "double_destroy") ELSE N
                         ELSE Err(M, "double_free")
      [] OTHER        -> M

destroy_buffer(M, i) == destroy_at(M, M.owner[i].data)

destroy_allocated(M, i) == delete(M, M.owner[i].data)

destroy(M, i) ==
    IF is_stack_allocated(M, i) THEN destroy_buffer(M, i) ELSE destroy_allocated(M, i)

reset_internal_keeps_move(M, i, new_data) ==
    SetData(destroy_buffer(M, i), i, new_data)

reset_internal(M, i, new_data) ==
    SetMove(SetData(destroy_buffer(M, i), i, new_data), i, None)

reset_allocated(M, i, new_data) ==
    SetData(destroy_allocated(M, i), i, new_data)

reset(M, i, new_data) ==
    IF is_stack_allocated(M, i) THEN reset_internal(M, i, new_data)
    ELSE reset_allocated(M, i, new_data)


(***************************************************************************)
(* Relocation.                                                             *)
(***************************************************************************)
\* The byte distance between the Base view of the object and the start of
\* the buffer of owner i; 0 for a type that is not polymorphic.
offsetof_base_unadjusted(M, i, Base) ==
    IF is_polymorphic(Attr(M.owner[i].view)) THEN M.owner[i].data.off ELSE 0

offsetof_base(M, i, Base) ==
    LET o == M.owner[i]
    IN  IF is_polymorphic(Attr(o.view))
        THEN o.data.off + CastDelta(Pointee(M, o.data).c, o.view, Base)
        ELSE 0

\* this->buffer(offset): the byte array specialisations add the offset
\* under the assertion offset <= sizeof(buffer_t), the others ignore it.
buffer(M, i, offset) ==
    IF VariantOf(M, i) \in {"static", "array"}
    THEN [ M |-> M, p |-> BufPtr(i, 0) ]
    ELSE [ M |-> IF offset <= M.owner[i].base.bufsz THEN M ELSE Err(M, "assert_buffer"),
           p |-> BufPtr(i, offset) ]

\* owner i: data_ = std::launder(buffer(offset));
SetBuffer(M, i, offset) == SetData(buffer(M, i, offset).M, i, buffer(M, i, offset).p)

CastPtr_unadjusted(M, p, U, T) == p

\* The conversion of a U* to a T* (a null pointer stays null).
CastPtr(M, p, U, T) ==
    IF p.k = "null" THEN p
    ELSE [ p EXCEPT !.off = @ + CastDelta(Pointee(M, p).c, U, T) ]

\* Move-construct an object of static type C at the start of the buffer
\* of owner j from the storage sp designates; g is the value read when
\* that storage holds no object.
Relocate(M, sp, C, j, g) ==
    LET from == Pointee(M, sp)
        dead == from.st = "none"
        made == IF dead THEN Obj(C, g, 1, "junk")
                ELSE IF C = None THEN Obj(from.c, from.v, from.n, from.src)
                ELSE IF from.c # C THEN Obj(C, g, 1, "junk")
                ELSE Obj(C, from.v, from.n, from.src)
        M1   == IF dead THEN Err(M, "read_dead") ELSE M
        M2   == IF M1.owner[j].buf.st # "none" THEN Note(M1, "construct_over_live") ELSE M1
        M3   == [ M2 EXCEPT !.owner[j].buf = made ]
    IN  IF dead \/ sp.k # "buf" \/ sp.id = j THEN M3
        ELSE [ M3 EXCEPT !.owner[sp.id].buf.st = "moved" ]

move_buffer_to_clears_source(M, i, j, g) ==
    LET o == M.owner[i]
        v == VariantOf(M, i)
        N == CASE v = "callback" -> IF o.move = None THEN Err(M, "null_call")
                                    ELSE SetMove(Relocate(M, BufPtr(i, 0), o.move, j, g), j, o.move)
               [] v = "static"   -> Relocate(M, BufPtr(i, 0), o.view, j, g)
               [] v = "array"    -> Relocate(M, BufPtr(i, 0), o.view, j, g)
               [] v = "hook"     -> Relocate(M, [ o.data EXCEPT !.off = 0 ], None, j, g)
               [] OTHER          -> Err(M, "no_buffer")
    IN  SetMove(SetData(N, i, NullPtr), i, None)

\* small_unique_ptr_base<T, Size>::move_buffer_to(dst) of each specialisation.
move_buffer_to(M, i, j, g) ==
    LET o == M.owner[i]
        v == VariantOf(M, i)
    IN  CASE v = "callback" -> IF o.move = None THEN Err(M, "null_call")
                               ELSE SetMove(Relocate(M, BufPtr(i, 0), o.move, j, g), j, o.move)
          [] v = "static"   -> Relocate(M, BufPtr(i, 0), o.view, j, g)
          [] v = "array"    -> Relocate(M, BufPtr(i, 0), o.view, j, g)
          [] v = "hook"     -> Relocate(M, [ o.data EXCEPT !.off = 0 ], None, j, g)
          [] OTHER          -> Err(M, "no_buffer")

(***************************************************************************)
(* The operations of small_unique_ptr<T, Size>.                            *)
(***************************************************************************)
\* small_unique_ptr(): data_ = nullptr, move_ = nullptr.
Construct(M, i, T) ==
    [ M EXCEPT !.owner[i] = [ alive |-> TRUE, view |-> T, base |-> Instance[T],
                              data |-> NullPtr, move |-> None, buf |-> NoObj ] ]

MoveInline_keeps_pointer(M, i, j, g, base_offset) ==
    SetData(move_buffer_to(buffer(M, i, base_offset).M, j, i, g), i, M.owner[j].data)

\* The inline branch of the converting moves: base_pointer =
\* this->buffer(base_offset); other.move_buffer_to(*this); this->data_ =
\* std::launder(base_pointer).
MoveInline(M, i, j, g, base_offset) ==
    SetData(move_buffer_to(buffer(M, i, base_offset).M, j, i, g), i,
            buffer(M, i, base_offset).p)

MoveConstructOp_keeps_source(M, i, j, T, g) ==
    LET M0 == Construct(M, i, T)
        U  == M.owner[j].view
    IN  IF ~is_stack_allocated(M0, j)
        THEN SetMove(SetData(M0, i, CastPtr(M0, M0.owner[j].data, U, T)), i, None)
        ELSE IF ~M0.owner[j].base.heap
        THEN MoveInline(M0, i, j, g, offsetof_base(M0, j, T))
        ELSE M0

\* small_unique_ptr(small_unique_ptr<U, Size>&& other, constructor_tag_t)
MoveConstructOp(M, i, j, T, g) ==
    LET M0 == Construct(M, i, T)
        U  == M.owner[j].view
    IN  IF ~is_stack_allocated(M0, j)
        THEN SetData(SetMove(SetData(M0, i, CastPtr(M0, M0.owner[j].data, U, T)), i, None),
                     j, NullPtr)
        ELSE IF ~M0.owner[j].base.heap
        THEN MoveInline(M0, i, j, g, offsetof_base(M0, j, T))
        ELSE M0

\* The same with base_offset = other.offsetof_base<T>() read in state M.
MoveInlineFrom(M, i, j, g, T) == MoveInline(M, i, j, g, offsetof_base(M, j, T))

\* operator=(small_unique_ptr<U, Size>&& other)
MoveAssignOp(M, i, j, g) ==
    LET U == M.owner[j].view
        T == M.owner[i].view
    IN  IF ~is_stack_allocated(M, j)
        THEN reset(SetData(M, j, NullPtr), i, CastPtr(M, M.owner[j].data, U, T))
        ELSE IF ~M.owner[j].base.heap
        THEN MoveInlineFrom(destroy(M, i), i, j, g, T)
        ELSE M

\* detail::small_unique_ptr_base<T, Size> temp; with a relocation hook
\* temp.data_ = std::launder(temp.buffer(other_offset)).
DeclareTemp(M, T, other_offset) ==
    IF has_virtual_move(Attr(T))
    THEN SetBuffer(Construct(M, Temp, T), Temp, other_offset)
    ELSE Construct(M, Temp, T)

\* owner j: data_ = std::launder(buffer(owner i . offsetof_base<T>()));
SetBufferAs(M, j, i, T) == SetBuffer(M, j, offsetof_base(M, i, T))

\* owner j: reset_internal(owner i . data_);
ResetInternalTo(M, j, i) == reset_internal(M, j, M.owner[i].data)

\* swap when both operands are stack allocated (this is owner i).
swap_stack_stack(M, i, j, T, g, other_offset) ==
    LET M1 == DeclareTemp(M, T, other_offset)
        M2 == move_buffer_to(M1, j, Temp, g)
        M3 == destroy_buffer(M2, j)
        M4 == SetBufferAs(M3, j, i, T)
        M5 == move_buffer_to(M4, i, j, g)
        M6 == destroy_buffer(M5, i)
        M7 == move_buffer_to(M6, Temp, i, g)
    IN  SetBuffer(M7, i, other_offset)

\* swap when only owner j is stack allocated: new_data =
\* i.buffer(j.offsetof_base()); j.move_buffer_to(i);
\* j.reset_internal(i.data_); i.data_ = std::launder(new_data).
swap_heap_stack(M, i, j, T, g, new_data) ==
    SetData(ResetInternalTo(move_buffer_to(new_data.M, j, i, g), j, i), i, new_data.p)

\* swap(small_unique_ptr& other): this is owner i, other is owner j.
SwapOp(M, i, j, g) ==
    LET T == M.owner[i].view
    IN  IF M.owner[i].base.heap
           \/ (~is_stack_allocated(M, i) /\ ~is_stack_allocated(M, j))
        THEN SetData(SetData(M, i, M.owner[j].data), j, M.owner[i].data)
        ELSE IF is_stack_allocated(M, i) /\ is_stack_allocated(M, j)
        THEN swap_stack_stack(M, i, j, T, g, offsetof_base(M, j, T))
        ELSE IF ~is_stack_allocated(M, i)
        THEN swap_heap_stack(M, i, j, T, g, buffer(M, i, offsetof_base(M, j, T)))
        ELSE swap_heap_stack(M, j, i, T, g, buffer(M, j, offsetof_base(M, i, T)))

\* The temporary of swap goes out of scope: small_unique_ptr_base has no
\* destructor that destroys the object in its buffer.
EndTemp(M) ==
    LET N == [ M EXCEPT !.owner[Temp] = DeadOwner ]
    IN  IF M.owner[Temp].buf.st # "none" THEN Note(N, "temp_not_destroyed") ELSE N

\* ~small_unique_ptr(), then the storage of the owner goes away.
DestructOp(M, i) ==
    LET M1 == destroy(M, i)
        N  == [ M1 EXCEPT !.owner[i] = DeadOwner ]
    IN  IF M1.owner[i].buf.st # "none" THEN Note(N, "buffer_not_destroyed") ELSE N

\* new C(v) / new E[n]{}: the lowest unused allocation.
FreshHeap(M) == { h \in HeapIds : M.heap[h].st = "unused" /\ \A k \in 1..(h - 1) : M.heap[k].st # "unused" }

Allocate(M, h, C, v, n, src) ==
    [ M EXCEPT !.heap[h] = [ st |-> "live", obj |-> Obj(C, v, n, src), dtor |-> FALSE ] ]

\* std::construct_at(reinterpret_cast<T*>(ptr.buffer()), v) in owner i: the
\* object takes sizeof(T) bytes from the start of the buffer, whatever the
\* size of the buffer.
construct_at(M, i, T, v) ==
    IF Attr(T).size > M.owner[i].base.bufsz
    THEN Err([ M EXCEPT !.owner[i].buf = Obj(T, v, 1, "make") ], "buffer_overflow")
    ELSE [ M EXCEPT !.owner[i].buf = Obj(T, v, 1, "make") ]

invoke_scalar_no_callback(M, i, T, B, v, h) ==
    LET M0 == Construct(M, i, B)
    IN  IF Instance[T].heap \/ M.mode = "ce"
        THEN SetData(Allocate(M0, h, T, v, 1, "make"), i, HeapPtr(h, Offset(T, B)))
        ELSE SetData(construct_at(M0, i, T, v), i, BufPtr(i, Offset(T, B)))

\* make_unique_small_impl::invoke_scalar<T, B, S>(args...)
invoke_scalar(M, i, T, B, v, h) ==
    LET M0 == Construct(M, i, B)
    IN  IF Instance[T].heap \/ M.mode = "ce"
        THEN SetData(Allocate(M0, h, T, v, 1, "make"), i, HeapPtr(h, Offset(T, B)))
        ELSE IF is_polymorphic(Attr(T)) /\ ~has_virtual_move(Attr(T))
        THEN SetMove(SetData(construct_at(M0, i, T, v), i, BufPtr(i, Offset(T, B))), i, T)
        ELSE SetData(construct_at(M0, i, T, v), i, BufPtr(i, Offset(T, B)))

\* Whether invoke_scalar<T, B, S> needs the heap.
ScalarNeedsHeap(T) == Instance[T].heap \/ mode = "ce"

stack_array_size(T) == Instance[T].bufsz \div Attr(T).size

\* make_unique_small_impl::invoke_array<T, S>(count)
invoke_array(M, i, T, count, h) ==
    LET M0 == Construct(M, i, T)
    IN  IF Instance[T].heap \/ stack_array_size(T) < count \/ M.mode = "ce"
        THEN SetData(Allocate(M0, h, T, 0, count, "make"), i, HeapPtr(h, 0))
        ELSE SetData([ M0 EXCEPT !.owner[i].buf = Obj(T, 0, stack_array_size(T), "make") ],
                     i, BufPtr(i, 0))

\* A new-expression whose constructor throws after built elements were
\* constructed: they are destroyed and the allocation is released.
new_throws(M, h, T, built) == delete(Allocate(M, h, T, 0, built, "make"), HeapPtr(h, 0))

\* std::construct_at / std::uninitialized_value_construct_n into the buffer
\* of owner i when a constructor throws after built elements: they are
\* destroyed and the buffer is left without an object.
construct_throws(M, i, T, built) ==
    IF built = 0 THEN M
    ELSE destroy_at([ M EXCEPT !.owner[i].buf = Obj(T, 0, built, "make") ], BufPtr(i, 0))

invoke_scalar_throws_after_assign(M, i, T, B, h) ==
    LET M0 == Construct(M, i, B)
    IN  IF Instance[T].heap \/ M.mode = "ce"
        THEN DestructOp(SetData(new_throws(M0, h, T, 0), i, HeapPtr(h, Offset(T, B))), i)
        ELSE DestructOp(SetMove(SetData(construct_throws(M0, i, T, 0), i,
                                        BufPtr(i, Offset(T, B))), i, T), i)

\* invoke_scalar<T, B, S>(args...) when the constructor of T throws: data_
\* and move_ are not assigned, and ptr is destroyed while the exception
\* leaves the factory.
invoke_scalar_throws(M, i, T, B, h) ==
    LET M0 == Construct(M, i, B)
    IN  IF Instance[T].heap \/ M.mode = "ce"
        THEN DestructOp(new_throws(M0, h, T, 0), i)
        ELSE DestructOp(construct_throws(M0, i, T, 0), i)

\* invoke_array<T, S>(count) when the constructor of an element throws
\* after built elements were constructed.
invoke_array_throws(M, i, T, count, h, built) ==
    LET M0 == Construct(M, i, T)
    IN  IF Instance[T].heap \/ stack_array_size(T) < count \/ M.mode = "ce"
        THEN DestructOp(new_throws(M0, h, T, built), i)
        ELSE DestructOp(construct_throws(M0, i, T, built), i)

ArrayNeedsHeap(T, count) ==
    Instance[T].heap \/ stack_array_size(T) < count \/ mode = "ce"


(***************************************************************************)
(* The owner protocol as a state machine: a program that declares owners   *)
(* (slots), creates objects with the factories and moves, swaps, resets    *)
(* and destroys the owners.                                                *)
(***************************************************************************)
LayoutIdle == lt = NonPoly(1) /\ lsize = PtrSize /\ lres = <<>>

Init ==
    /\ LayoutIdle
    /\ mode \in {"rt", "ce"}
    /\ family \in FamilyNames
    /\ owner = [ i \in 0..NumOwners |-> DeadOwner ]
    /\ heap = [ h \in HeapIds |-> NoAlloc ]
    /\ errs = {}
    /\ last = [ op |-> None, notes |-> {} ]
    /\ twin = <<>>

Types == Families[family]

\* The program runs as long as its behaviour is defined.
Running == errs = {}

Commit(M, op) ==
    /\ owner' = M.owner
    /\ heap' = M.heap
    /\ errs' = M.errs
    /\ last' = [ op |-> op, notes |-> M.notes ]
    /\ UNCHANGED <<lt, lsize, lres, mode, family, twin>>

\* An operation that reads storage holding no object reads any value.
CommitRead(M, g, op) == (g = 1 \/ "read_dead" \in M.errs) /\ Commit(M, op)

CommitAny(Op(_), op) == \E g \in Vals : CommitRead(Op(g), g, op)

\* The instantiations of the factory the compiler accepts: the inline
\* branch for T needs a buffer in the owner of B.
FactoryCompiles(T, B) ==
    /\ is_pointer_convertible(T, B)
    /\ Instance[T].heap \/ ~Instance[B].heap

\* The instantiations of a move the compiler accepts: the inline branch of
\* a move from an owner of U needs a buffer in the owner of T, and
\* move_buffer_to of the hook specialisation requires has_virtual_move<T>.
MoveCompiles(U, T) ==
    /\ is_pointer_convertible(U, T)
    /\ Instance[U].heap \/ ~Instance[T].heap
    /\ (Instance[U].variant = "hook") => has_virtual_move(Attr(T))

\* small_unique_ptr<T> p;
DefaultConstruct(i, T) ==
    /\ Running
    /\ ~owner[i].alive
    /\ Commit(Construct(Machine, i, T), "construct")

\* small_unique_ptr<B> p = make_unique_small<T, B>(v);
MakeScalar(i, T, B, v) ==
    /\ Running
    /\ ~owner[i].alive
    /\ ~Attr(T).array /\ ~Attr(T).abstract
    /\ FactoryCompiles(T, B)
    /\ IF ScalarNeedsHeap(T)
       THEN \E h \in FreshHeap(Machine) : Commit(invoke_scalar(Machine, i, T, B, v, h), "make")
       ELSE Commit(invoke_scalar(Machine, i, T, B, v, 0), "make")

ArrayCounts(T) == {0, 1, stack_array_size(T), stack_array_size(T) + 1}

\* small_unique_ptr<T[]> p = make_unique_small<T[]>(count);
MakeArray(i, T, count) ==
    /\ Running
    /\ ~owner[i].alive
    /\ Attr(T).array
    /\ IF ArrayNeedsHeap(T, count)
       THEN \E h \in FreshHeap(Machine) : Commit(invoke_array(Machine, i, T, count, h), "make")
       ELSE Commit(invoke_array(Machine, i, T, count, 0), "make")

\* make_unique_small<T, B>(v) when the constructor of T throws; slot i is
\* the local owner of the factory.
MakeScalarThrows(i, T, B) ==
    /\ Running
    /\ ~owner[i].alive
    /\ ~Attr(T).array /\ ~Attr(T).abstract
    /\ FactoryCompiles(T, B)
    /\ IF ScalarNeedsHeap(T)
       THEN \E h \in FreshHeap(Machine) :
              Commit(invoke_scalar_throws(Machine, i, T, B, h), "make_throws")
       ELSE Commit(invoke_scalar_throws(Machine, i, T, B, 0), "make_throws")

\* The elements constructed before the one whose constructor throws.
BuiltCounts(T, count) ==
    IF ArrayNeedsHeap(T, count) THEN {0, count - 1} \cap Nat
    ELSE {0, stack_array_size(T) - 1} \cap Nat

\* make_unique_small<T[]>(count) when the constructor of an element throws.
MakeArrayThrows(i, T, count, built) ==
    /\ Running
    /\ ~owner[i].alive
    /\ Attr(T).array
    /\ IF ArrayNeedsHeap(T, count)
       THEN \E h \in FreshHeap(Machine) :
              Commit(invoke_array_throws(Machine, i, T, count, h, built), "make_throws")
       ELSE Commit(invoke_array_throws(Machine, i, T, count, 0, built), "make_throws")

\* small_unique_ptr<T> p = std::move(q);    (p is slot i, q is slot j)
MoveConstruct(i, j, T) ==
    /\ Running
    /\ ~owner[i].alive
    /\ owner[j].alive
    /\ MoveCompiles(owner[j].view, T)
    /\ CommitAny(LAMBDA g : MoveConstructOp(Machine, i, j, T, g), "move_construct")

\* p = std::move(q);
MoveAssign(i, j) ==
    /\ Running
    /\ i # j
    /\ owner[i].alive /\ owner[j].alive
    /\ MoveCompiles(owner[j].view, owner[i].view)
    /\ CommitAny(LAMBDA g : MoveAssignOp(Machine, i, j, g), "move_assign")

\* p.reset();   p = nullptr;
Reset(i) ==
    /\ Running
    /\ owner[i].alive
    /\ Commit(reset(Machine, i, NullPtr), "reset")

\* p.reset(new C(v));
ResetTo(i, C, v) ==
    /\ Running
    /\ owner[i].alive
    /\ is_pointer_convertible(C, owner[i].view) /\ ~Attr(C).abstract
    /\ \E h \in FreshHeap(Machine) :
         Commit(reset(Allocate(Machine, h, C, v, 1, "raw"), i, HeapPtr(h, Offset(C, owner[i].view))),
                "reset_to")

\* p.swap(q);   swap(p, q);
Swap(i, j) ==
    /\ Running
    /\ owner[i].alive /\ owner[j].alive
    /\ owner[i].view = owner[j].view
    /\ CommitAny(LAMBDA g : EndTemp(SwapOp(Machine, i, j, g)), "swap")

\* p goes out of scope.
Destruct(i) ==
    /\ Running
    /\ owner[i].alive
    /\ Commit(DestructOp(Machine, i), "destruct")

\* *p = v;   p[k] = v;
Write(i, v) ==
    /\ Running
    /\ owner[i].alive
    /\ Deref(Machine, i).c # "junk"
    /\ Deref(Machine, i).v # v
    /\ LET p == owner[i].data
       IN  Commit(IF p.k = "heap" THEN [ Machine EXCEPT !.heap[p.id].obj.v = v ]
                  ELSE [ Machine EXCEPT !.owner[p.id].buf.v = v ], "write")

Next ==
    \/ \E i \in Slots, T \in Types : DefaultConstruct(i, T)
    \/ \E i \in Slots, T \in Types, B \in Types, v \in Vals : MakeScalar(i, T, B, v)
    \/ \E i \in Slots, T \in Types : \E count \in ArrayCounts(T) : MakeArray(i, T, count)
    \/ \E i \in Slots, T \in Types, B \in Types : MakeScalarThrows(i, T, B)
    \/ \E i \in Slots, T \in Types : \E count \in ArrayCounts(T) :
          \E built \in BuiltCounts(T, count) : MakeArrayThrows(i, T, count, built)
    \/ \E i \in Slots, j \in Slots, T \in Types : MoveConstruct(i, j, T)
    \/ \E i \in Slots, j \in Slots : MoveAssign(i, j)
    \/ \E i \in Slots : Reset(i)
    \/ \E i \in Slots, C \in Types, v \in Vals : ResetTo(i, C, v)
    \/ \E i \in Slots, j \in Slots : Swap(i, j)
    \/ \E i \in Slots : Destruct(i)
    \/ \E i \in Slots, v \in Vals : Write(i, v)

Spec == Init /\ [][Next]_vars

(***************************************************************************)
(* One program run twice in lockstep: owner, heap and errs are the run at  *)
(* run time, twin is the run of the same operations under constant         *)
(* evaluation.                                                             *)
(***************************************************************************)
TwinStart ==
    [ owner |-> [ i \in 0..NumOwners |-> DeadOwner ], heap |-> [ h \in HeapIds |-> NoAlloc ],
      errs |-> {}, notes |-> {}, mode |-> "ce" ]

InitTwin ==
    /\ LayoutIdle
    /\ mode = "rt"
    /\ family \in FamilyNames
    /\ owner = [ i \in 0..NumOwners |-> DeadOwner ]
    /\ heap = [ h \in HeapIds |-> NoAlloc ]
    /\ errs = {}
    /\ last = [ op |-> None, notes |-> {} ]
    /\ twin = TwinStart

BothRunning == errs = {} /\ twin.errs = {}

CommitBoth(M, N, op) ==
    /\ owner' = M.owner
    /\ heap' = M.heap
    /\ errs' = M.errs
    /\ last' = [ op |-> op, notes |-> M.notes ]
    /\ twin' = [ N EXCEPT !.notes = {} ]
    /\ UNCHANGED <<lt, lsize, lres, mode, family>>

TwinConstruct(i, T) ==
    /\ BothRunning
    /\ ~owner[i].alive
    /\ CommitBoth(Construct(Machine, i, T), Construct(twin, i, T), "construct")

TwinMakeScalar(i, T, B, v) ==
    /\ BothRunning
    /\ ~owner[i].alive
    /\ ~Attr(T).array /\ ~Attr(T).abstract
    /\ FactoryCompiles(T, B)
    /\ \E k \in FreshHeap(twin) :
         IF ScalarNeedsHeap(T)
         THEN \E h \in FreshHeap(Machine) :
                CommitBoth(invoke_scalar(Machine, i, T, B, v, h),
                           invoke_scalar(twin, i, T, B, v, k), "make")
         ELSE CommitBoth(invoke_scalar(Machine, i, T, B, v, 0),
                         invoke_scalar(twin, i, T, B, v, k), "make")

TwinMakeArray(i, T, count) ==
    /\ BothRunning
    /\ ~owner[i].alive
    /\ Attr(T).array
    /\ \E k \in FreshHeap(twin) :
         IF ArrayNeedsHeap(T, count)
         THEN \E h \in FreshHeap(Machine) :
                CommitBoth(invoke_array(Machine, i, T, count, h),
                           invoke_array(twin, i, T, count, k), "make")
         ELSE CommitBoth(invoke_array(Machine, i, T, count, 0),
                         invoke_array(twin, i, T, count, k), "make")

TwinMoveConstruct(i, j, T) ==
    /\ BothRunning
    /\ ~owner[i].alive
    /\ owner[j].alive
    /\ MoveCompiles(owner[j].view, T)
    /\ CommitBoth(MoveConstructOp(Machine, i, j, T, 1), MoveConstructOp(twin, i, j, T, 1),
                  "move_construct")

TwinMoveAssign(i, j) ==
    /\ BothRunning
    /\ i # j
    /\ owner[i].alive /\ owner[j].alive
    /\ MoveCompiles(owner[j].view, owner[i].view)
    /\ CommitBoth(MoveAssignOp(Machine, i, j, 1), MoveAssignOp(twin, i, j, 1), "move_assign")

TwinSwap(i, j) ==
    /\ BothRunning
    /\ owner[i].alive /\ owner[j].alive
    /\ owner[i].view = owner[j].view
    /\ CommitBoth(EndTemp(SwapOp(Machine, i, j, 1)), EndTemp(SwapOp(twin, i, j, 1)), "swap")

TwinDestruct(i) ==
    /\ BothRunning
    /\ owner[i].alive
    /\ CommitBoth(DestructOp(Machine, i), DestructOp(twin, i), "destruct")

NextTwin ==
    \/ \E i \in Slots, T \in Types : TwinConstruct(i, T)
    \/ \E i \in Slots, T \in Types, B \in Types, v \in Vals : TwinMakeScalar(i, T, B, v)
    \/ \E i \in Slots, T \in Types : \E count \in ArrayCounts(T) : TwinMakeArray(i, T, count)
    \/ \E i \in Slots, j \in Slots, T \in Types : TwinMoveConstruct(i, j, T)
    \/ \E i \in Slots, j \in Slots : TwinMoveAssign(i, j)
    \/ \E i \in Slots, j \in Slots : TwinSwap(i, j)
    \/ \E i \in Slots : TwinDestruct(i)

SpecTwin == InitTwin /\ [][NextTwin]_vars

(***************************************************************************)
(* Properties.                                                             *)
(***************************************************************************)
\* The machine state after the step.
After == [ owner |-> owner', heap |-> heap', errs |-> errs', notes |-> {}, mode |-> mode ]

\* Owner i holds an object in its own buffer / a heap pointer / nothing.
HoldsInline(i) ==
    /\ owner[i].alive
    /\ owner[i].data.k = "buf" /\ owner[i].data.id = i
    /\ owner[i].buf.st # "none"

HoldsHeap(i) == owner[i].alive /\ owner[i].data.k = "heap"

\* Owner i designates a live object that a factory made.
HoldsMade(i) ==
    /\ owner[i].alive
    /\ Deref(Machine, i).c # "junk"
    /\ Pointee(Machine, owner[i].data).st = "live"
    /\ Pointee(Machine, owner[i].data).src = "make"

\* The step move-constructs or move-assigns owner i from owner j.
MoveInto(i, j) ==
    \/ last'.op = "move_construct" /\ \E T \in Types : MoveConstruct(i, j, T)
    \/ last'.op = "move_assign" /\ MoveAssign(i, j)

\* The step swaps the two owners i and j.
Swaps(i, j) == last'.op = "swap" /\ i # j /\ Swap(i, j)

IsMove == last.op \in {"move_construct", "move_assign"}

\* The concrete type c has a base subobject that does not start the object.
MultiBase(c) == \E b \in Bases(c) : Offset(c, b) # 0

\* C1: each owned object is destroyed exactly once, in place when inline and
\* by deallocation when heap-backed: no allocation is freed twice, none has
\* its destructor run without being deallocated, no buffer address is
\* deallocated, no owner dies leaving the object in its buffer alive, and
\* once every owner is destroyed no allocation is left unfreed.
C1_DestroyedExactlyOnce ==
    /\ errs \cap {"double_free", "double_destroy", "destroy_dead", "destroy_null",
                  "delete_buffer"} = {}
    /\ \A h \in HeapIds : ~heap[h].dtor
    /\ "buffer_not_destroyed" \notin last.notes
    /\ (\A i \in Slots : ~owner[i].alive) => \A h \in HeapIds : heap[h].st # "live"

\* C2: after a move-construction or move-assignment from a non-empty owner
\* the source owner is empty, whichever placement the moved object had.
C2_SourceEmptyAfterMove ==
    [][ \A i, j \in Slots :
          (MoveInto(i, j) /\ owner[j].data # NullPtr) => owner'[j].data = NullPtr ]_vars

\* C3: after a move from an owner whose object is in its internal buffer the
\* source keeps its data pointer, which designates the moved-from object in
\* its own buffer; a source that is null after the move held a heap pointer.
C3_InlineSourceNotNull ==
    [][ \A i, j \in Slots : MoveInto(i, j) =>
          /\ HoldsInline(j) => /\ owner'[j].data = owner[j].data
                               /\ owner'[j].buf.st = "moved"
          /\ (owner[j].data # NullPtr /\ owner'[j].data = NullPtr) => HoldsHeap(j) ]_vars

C3_Witness ==
    /\ IsMove
    /\ \E i, j \in Slots :
         /\ i # j
         /\ owner[j].alive /\ owner[j].data.k = "buf" /\ owner[j].data.id = j
         /\ owner[j].buf.st = "moved"
         /\ HoldsInline(i) /\ owner[i].buf.st = "live"
         /\ owner[i].buf.c = owner[j].buf.c

\* C4: a move from an owner of a factory-made object leaves the destination
\* (same view or base view) dereferencing to the value and dynamic type the
\* source dereferenced to, the object still the factory's, inline or heap
\* alike; by induction the same holds after any chain of such moves.
C4_MovePreservesObject ==
    [][ \A i, j \in Slots : (HoldsMade(j) /\ MoveInto(i, j)) =>
          /\ Deref(After, i) = Deref(Machine, j)
          /\ Pointee(After, owner'[i].data).st = "live"
          /\ Pointee(After, owner'[i].data).src = "make"
          /\ owner'[i].data.k = owner[j].data.k ]_vars

C4_Witness ==
    /\ IsMove
    /\ \E i, j \in Slots :
         /\ i # j
         /\ HoldsMade(i)
         /\ owner[i].view \in Bases(Deref(Machine, i).c)
         /\ owner[j].alive /\ owner[j].view # owner[i].view
         /\ Deref(Machine, i).v = MaxVal

\* C5: swap of two owners exchanges what they dereference to (value and
\* dynamic type) in every placement combination, and an empty operand makes
\* the other operand empty.
C5_SwapExchanges ==
    [][ \A i, j \in Slots : Swaps(i, j) =>
          /\ Deref(After, i) = Deref(Machine, j)
          /\ Deref(After, j) = Deref(Machine, i)
          /\ (owner[i].data = NullPtr) => (owner'[j].data = NullPtr)
          /\ (owner[j].data = NullPtr) => (owner'[i].data = NullPtr) ]_vars

\* What a program observes of owner i: what it dereferences to, whether it
\* is empty and whether its object is in a buffer.
Observed(M, i) ==
    [ deref  |-> Deref(M, i),
      empty  |-> M.owner[i].data = NullPtr,
      inline |-> M.owner[i].data.k = "buf" ]

\* a.swap(b); a.swap(b);
SwapTwice(i, j, g, h) == EndTemp(SwapOp(EndTemp(SwapOp(Machine, i, j, g)), i, j, h))

\* C6: swapping two owners of the same type twice restores what each of
\* them dereferences to, its empty status and its placement.
C6_SwapInvolution ==
    \A i, j \in Slots :
        (Running /\ i # j /\ owner[i].alive /\ owner[j].alive /\ owner[i].view = owner[j].view)
        => \A g, h \in Vals :
             /\ Observed(SwapTwice(i, j, g, h), i) = Observed(Machine, i)
             /\ Observed(SwapTwice(i, j, g, h), j) = Observed(Machine, j)

\* C7: reset(p) destroys the current object in place or deallocates it and
\* leaves the owner heap-backed holding p (not stack allocated, no
\* relocation callback); reset() leaves the owner empty; a heap pointer an
\* owner holds is released by deallocation when the owner is destroyed.
C7_ResetInstallsHeapPointer ==
    [][ \A i \in Slots :
          /\ \A C \in Types, v \in Vals : ResetTo(i, C, v) =>
               /\ owner'[i].data.k = "heap"
               /\ Deref(After, i) = [ c |-> C, v |-> v ]
               /\ ~is_stack_allocated(After, i)
               /\ owner'[i].move = None
               /\ owner'[i].buf.st = "none"
               /\ (owner[i].data.k = "heap") => (heap'[owner[i].data.id].st = "freed")
               /\ errs' = {}
          /\ Reset(i) =>
               /\ owner'[i].data = NullPtr
               /\ ~is_stack_allocated(After, i)
               /\ owner'[i].buf.st = "none"
               /\ (owner[i].data.k = "heap") => (heap'[owner[i].data.id].st = "freed")
               /\ errs' = {}
          /\ (Destruct(i) /\ owner[i].data.k = "heap") =>
               /\ heap'[owner[i].data.id].st = "freed"
               /\ errs' = {} ]_vars

\* C8: the size of small_unique_ptr<T, Size> is never greater than Size.
C8_SizeBound == \A k \in 1..Len(lres) : lres[k].size <= lsize

\* C9: the size of small_unique_ptr<T, Size> is one pointer when T is always
\* heap allocated and Size when T is polymorphic and can be stored inline; it
\* is smaller than Size only for an always heap allocated type, an array, or
\* a type that is not polymorphic and smaller than the available buffer.
C9_ExactSize ==
    \A k \in 1..Len(lres) :
        /\ lres[k].heap => lres[k].size = PtrSize
        /\ (~lres[k].heap /\ is_polymorphic(lt)) => lres[k].size = lsize
        /\ lres[k].size < lsize =>
               \/ lres[k].heap
               \/ lt.array
               \/ (~is_polymorphic(lt) /\ lt.size < lsize - PtrSize)

\* The destination d of a relocation of the inline object obj holds it at
\* the offset of its own view inside the object and dereferences to it.
ArrivedAt(d, obj) ==
    /\ owner'[d].buf.c = obj.c /\ owner'[d].buf.v = obj.v
    /\ owner'[d].data = BufPtr(d, Offset(obj.c, owner'[d].view))
    /\ Deref(After, d) = [ c |-> obj.c, v |-> obj.v ]

\* C10: when an inline object whose type has a base that does not start the
\* object is moved or swapped, the data pointer of the destination is the
\* start of its buffer plus the offset of its view inside the object, and
\* the destination dereferences to the dynamic type and value of the object.
C10_BaseOffset ==
    [][ \A i, j \in Slots :
          /\ (HoldsInline(j) /\ MultiBase(owner[j].buf.c) /\ MoveInto(i, j))
                => ArrivedAt(i, owner[j].buf)
          /\ (HoldsInline(j) /\ MultiBase(owner[j].buf.c) /\ Swaps(i, j))
                => ArrivedAt(i, owner[j].buf)
          /\ (HoldsInline(i) /\ MultiBase(owner[i].buf.c) /\ Swaps(i, j))
                => ArrivedAt(j, owner[i].buf) ]_vars

C10_Witness ==
    /\ last.op = "swap"
    /\ \E i, j \in Slots :
         /\ HoldsInline(i) /\ HoldsInline(j)
         /\ owner[i].buf.c # owner[j].buf.c
         /\ owner[i].data.off > 0 /\ owner[j].data.off > owner[i].data.off
         /\ Deref(Machine, i).c = owner[i].buf.c
         /\ Deref(Machine, j).c = owner[j].buf.c

\* The conditions under which an object of type t cannot live in the buffer
\* of small_unique_ptr<t, Size>.
TooLarge(t) == Attr(t).size > Instance[t].B

TooAligned(t) == Attr(t).align > Instance[t].A

\* Owner i holds a live object whose concrete type is always heap allocated.
HoldsHeapForced(i) ==
    /\ owner[i].alive
    /\ Pointee(Machine, owner[i].data).st # "none"
    /\ Instance[Pointee(Machine, owner[i].data).c].heap

Fits(t) ==
    /\ Attr(t).size <= Instance[t].B
    /\ Attr(t).align <= Instance[t].A
    /\ Attr(t).nothrow

\* The step is small_unique_ptr<B> (slot i) = make_unique_small<T, B>(v).
Makes(i, T, B, v) == last'.op = "make" /\ MakeScalar(i, T, B, v)

\* Owner j holds a factory-made scalar object in the placement
\* make_unique_small<T> gives it.
HoldsAsMade(j) ==
    /\ HoldsMade(j) /\ ~Attr(Deref(Machine, j).c).array
    /\ is_stack_allocated(Machine, j) <=> Fits(Deref(Machine, j).c)

C13_ConstEvalHeapOnly ==
    [][ mode = "ce" =>
          /\ \A i \in Slots : owner'[i].alive =>
                /\ ~is_stack_allocated(After, i)
                /\ owner'[i].data.k # "buf"
                /\ owner'[i].move = None
          /\ \A i \in 0..NumOwners : owner'[i].buf.st = "none"
          /\ \A i \in Slots : (last'.op = "make" /\ ~owner[i].alive /\ owner'[i].alive) =>
                /\ owner'[i].data.k = "heap"
                /\ heap[owner'[i].data.id].st = "unused"
                /\ heap'[owner'[i].data.id].st = "live" ]_vars

C13_Witness ==
    /\ mode = "ce" /\ last.op = "swap"
    /\ \E i, j \in Slots :
         /\ i # j
         /\ HoldsMade(i) /\ HoldsHeap(i) /\ ~owner[i].base.heap
         /\ HoldsMade(j) /\ HoldsHeap(j) /\ ~Instance[Deref(Machine, j).c].heap
         /\ Deref(Machine, i).v # Deref(Machine, j).v

\* The two runs agree on what a program observes of owner i.
Agree(i) ==
    /\ owner[i].alive = twin.owner[i].alive
    /\ owner[i].alive =>
          /\ (owner[i].data = NullPtr) <=> (twin.owner[i].data = NullPtr)
          /\ owner[i].data # NullPtr => Deref(Machine, i) = Deref(twin, i)

\* C14: after the same sequence of factory calls, moves and swaps the run
\* at run time and the run under constant evaluation agree, at every step,
\* on whether each owner is null and on the dynamic type and value seen
\* through each owner that is not.
C14_SameObservations == \A i \in Slots : Agree(i)

\* C15: a factory call whose constructor throws (scalar or array, inline or
\* heap path, after any number of elements) leaves no owner, no object in a
\* buffer and no live allocation behind that was not there before, and runs
\* no destructor or deallocation on storage that holds no object.
C15_FailedFactoryLeavesNothing ==
    [][ last'.op = "make_throws" =>
          /\ owner' = owner
          /\ errs' = {} /\ last'.notes = {}
          /\ \A h \in HeapIds :
                \/ heap'[h] = heap[h]
                \/ /\ heap[h].st = "unused"
                   /\ heap'[h] = [ st |-> "freed", obj |-> NoObj, dtor |-> FALSE ] ]_vars

C15_Witness ==
    /\ last.op = "make_throws" /\ mode = "rt"
    /\ \E h \in HeapIds : heap[h].st = "freed"
    /\ \E i, j \in Slots : HoldsInline(i) /\ ~owner[j].alive

\* The step is small_unique_ptr<T[]> (slot i) = make_unique_small<T[]>(count).
MakesArray(i, T, count) == last'.op = "make" /\ MakeArray(i, T, count)

\* C16: the array factory allocates an array of count elements on the heap
\* when count exceeds the inline capacity or the heap is forced (by the
\* layout or by constant evaluation), and otherwise constructs count
\* elements in the buffer of the owner, for every count up to the capacity.
C16_ArrayFactoryCount ==
    [][ \A i \in Slots, T \in Types : \A count \in ArrayCounts(T) :
          MakesArray(i, T, count) =>
            IF count > stack_array_size(T) \/ Instance[T].heap \/ mode = "ce"
            THEN /\ owner'[i].data.k = "heap"
                 /\ heap[owner'[i].data.id].st = "unused"
                 /\ heap'[owner'[i].data.id].obj = Obj(T, 0, count, "make")
                 /\ owner'[i].buf.st = "none"
            ELSE /\ owner'[i].data = BufPtr(i, 0)
                 /\ owner'[i].buf = Obj(T, 0, count, "make")
                 /\ heap' = heap ]_vars

\* operator==(const small_unique_ptr<U>& rhs): this->data_ == rhs.data_.
Equal(i, j) == owner[i].data = owner[j].data

\* C17: no two distinct owners hold a pointer into the same heap allocation
\* or into the same buffer, no two distinct owners hold the same non-null
\* data pointer, and so two distinct owners compare equal only when both
\* are empty.
C17_OwnershipUnique ==
    \A i, j \in Slots : (i # j /\ owner[i].alive /\ owner[j].alive) =>
        /\ (owner[i].data.k = "heap" /\ owner[j].data.k = "heap")
              => owner[i].data.id # owner[j].data.id
        /\ (owner[i].data.k = "buf" /\ owner[j].data.k = "buf")
              => owner[i].data.id # owner[j].data.id
        /\ Equal(i, j) => (owner[i].data = NullPtr /\ owner[j].data = NullPtr)

C17_Witness ==
    /\ mode = "rt" /\ last.op = "swap"
    /\ \E i, j \in Slots :
         /\ i # j /\ HoldsHeap(i) /\ HoldsInline(j)
         /\ HoldsMade(i) /\ HoldsMade(j) /\ ~Equal(i, j)

\* Size is the size of a pointer times a power of two.
PowerOfTwoSize(S) == S \in { PtrSize * Pow2(k) : k \in 0..MaxAlignLog }

\* C18: when Size is a power of two, a type whose alignment (a power of two
\* dividing its size) exceeds the buffer alignment is also larger than the
\* buffer: alignment alone never forces heap allocation.
C18_NoAlignmentOnlyHeap ==
    \A k \in 1..Len(lres) :
        (PowerOfTwoSize(lsize) /\ lt.align > lres[k].A) => lt.size > lres[k].B

C18_Witness ==
    /\ Len(lres) = 1 /\ PowerOfTwoSize(lsize) /\ lsize > PtrSize
    /\ lt.align > lres[1].A /\ lt.size > lres[1].B /\ lres[1].heap
    /\ lt.nothrow

\* The type T without the small_unique_ptr_move hook.
WithoutHook(T) == [ T EXCEPT !.vmove = FALSE ]

\* C19: for a polymorphic type with a virtual destructor that implements the
\* hook and is stored inline, the buffer is one pointer larger than the
\* buffer of the same type without the hook at the same Size (56 against 48
\* bytes at the default Size), the hook specialisation is selected, it has
\* no callback field, and the owner is the buffer plus the data pointer.
C19_HookEnlargesBuffer ==
    \A k \in 1..Len(lres) :
        (has_virtual_destructor(lt) /\ has_virtual_move(lt) /\ ~lres[k].heap) =>
            /\ lres[k].B = buffer_size(WithoutHook(lt), lsize) + PtrSize
            /\ lres[k].bufsz = lres[k].B
            /\ lres[k].variant = "hook" /\ ~has_move_field(lt, lsize)
            /\ lres[k].size = lres[k].B + PtrSize
            /\ lsize = default_small_ptr_size =>
                  (lres[k].B = 56 /\ buffer_size(WithoutHook(lt), lsize) = 48)

C19_Witness ==
    /\ Len(lres) = 1 /\ lsize = default_small_ptr_size
    /\ has_virtual_destructor(lt) /\ has_virtual_move(lt)
    /\ ~lres[1].heap /\ lt.size = 56 /\ lres[1].B = 56
    /\ is_always_heap_allocated(WithoutHook(lt), lsize)

\* Owner i is not empty: its data pointer designates an object.
HoldsObject(i) == owner[i].alive /\ Pointee(Machine, owner[i].data).st # "none"

\* The step destroyed the object owner i held exactly once: deallocated if
\* it was on the heap, its destructor run in place if it was in the buffer.
PreviousDestroyed(i) ==
    /\ errs' = {} /\ last'.notes = {}
    /\ (owner[i].data.k = "heap") => (heap'[owner[i].data.id].st = "freed")
    /\ (owner[i].data.k = "buf") => (\A h \in HeapIds : heap'[h].st = heap[h].st)

\* C20: a move assignment into an owner that holds an object destroys that
\* object exactly once (in place if inline, by deallocation if on the heap)
\* and installs the incoming object, which the owner then dereferences to,
\* whatever the two placements and base offsets; p = nullptr destroys the
\* object the same way and leaves the owner empty.
C20_MoveAssignReplaces ==
    [][ \A i \in Slots :
          /\ \A j \in Slots :
               (last'.op = "move_assign" /\ MoveAssign(i, j) /\ HoldsObject(i)
                  /\ Pointee(Machine, owner[j].data).st = "live"
                  /\ Deref(Machine, j).c # "junk") =>
                 /\ PreviousDestroyed(i)
                 /\ Deref(After, i) = Deref(Machine, j)
                 /\ Pointee(After, owner'[i].data).st = "live"
                 /\ owner'[i].data.k = owner[j].data.k
          /\ (last'.op = "reset" /\ Reset(i) /\ HoldsObject(i)) =>
                 /\ PreviousDestroyed(i)
                 /\ owner'[i].data = NullPtr ]_vars

\* The data pointer of owner i designates a byte of the buffer of owner i.
InOwnBuffer(i) ==
    /\ owner[i].data.k = "buf" /\ owner[i].data.id = i
    /\ 0 <= owner[i].data.off /\ owner[i].data.off < owner[i].base.B

\* C21: an owner whose buffer holds an object has its data pointer inside
\* its own buffer; no data pointer designates the buffer of another owner
\* or of the temporary of swap; no call of buffer(offset) fails its
\* assertion.
C21_DataInOwnBuffer ==
    /\ "assert_buffer" \notin errs
    /\ \A i \in Slots :
         /\ (owner[i].alive /\ owner[i].buf.st # "none") => InOwnBuffer(i)
         /\ (owner[i].alive /\ owner[i].data.k = "buf") => InOwnBuffer(i)

C21_Witness ==
    /\ last.op = "swap"
    /\ \E i, j \in Slots :
         /\ HoldsInline(i) /\ HoldsInline(j)
         /\ InOwnBuffer(i) /\ InOwnBuffer(j)
         /\ owner[i].data.off = 0 /\ owner[j].data.off > 0
         /\ owner[i].buf.st = "live" /\ owner[j].buf.st = "live"

\* Owner i is an owner of the specialisation that stores the callback.
StoresCallback(i) == owner[i].alive /\ VariantOf(Machine, i) = "callback"

\* C22: in an owner that stores a relocation callback the callback is set
\* exactly when the owner's buffer holds an object the data pointer
\* designates, it is null when the owner is empty or holds a heap pointer,
\* and when set it is the callback of the concrete type of the object in
\* the buffer; the other specialisations never hold a callback.
C22_CallbackMatchesObject ==
    \A i \in Slots :
        /\ StoresCallback(i) =>
             /\ (owner[i].move # None) <=> (owner[i].buf.st # "none" /\ InOwnBuffer(i))
             /\ (owner[i].data.k \in {"null", "heap"}) => (owner[i].move = None)
             /\ (owner[i].move # None) => (owner[i].move = owner[i].buf.c)
        /\ (owner[i].alive /\ ~StoresCallback(i)) => (owner[i].move = None)

C22_Witness ==
    /\ last.op = "swap"
    /\ \E i, j \in Slots :
         /\ StoresCallback(i) /\ StoresCallback(j)
         /\ HoldsInline(i) /\ owner[i].move = owner[i].buf.c
         /\ owner[i].buf.c # owner[i].view /\ owner[i].buf.st = "live"
         /\ HoldsHeap(j) /\ owner[j].move = None

\* C23: the buffer capacity is at most Size minus one pointer, and minus
\* the callback as well when the selected specialisation stores the
\* callback; for a type that is not polymorphic it is at most sizeof(T);
\* the buffer of an array owner is the largest multiple of the element size
\* within the capacity; the subtraction never wraps around.
C23_BufferCapacity ==
    \A k \in 1..Len(lres) :
        /\ lres[k].B <= lsize - PtrSize
        /\ has_move_field(lt, lsize) => (lres[k].B <= lsize - PtrSize - PtrSize)
        /\ (~is_polymorphic(lt) /\ ~lt.array) => (lres[k].B <= lt.size)
        /\ (lt.array /\ ~lres[k].heap) =>
             /\ lres[k].bufsz % lt.size = 0
             /\ lres[k].bufsz <= lres[k].B /\ lres[k].B < lres[k].bufsz + lt.size

\* C24: small_unique_ptr<T, Size> is always heap allocated exactly when
\* sizeof(T) exceeds the buffer capacity, or alignof(T) exceeds the buffer
\* alignment, or T is neither nothrow move constructible nor abstract (the
\* element type for an array); an abstract type that fits is not, and the
\* owner has a buffer exactly when it is not always heap allocated.
C24_AlwaysHeapFormula ==
    \A k \in 1..Len(lres) :
        /\ lres[k].heap <=> \/ lt.size > lres[k].B
                            \/ lt.align > lres[k].A
                            \/ (~lt.nothrow /\ ~lt.abstract)
        /\ (lt.abstract /\ lt.size <= lres[k].B /\ lt.align <= lres[k].A) => ~lres[k].heap
        /\ lres[k].heap <=> (lres[k].variant = "heap")
        /\ lres[k].heap <=> (lres[k].bufsz = 0)

C24_Witness ==
    /\ Len(lres) = 1 /\ lsize = default_small_ptr_size
    /\ lt.abstract /\ ~lt.nothrow /\ has_virtual_destructor(lt)
    /\ lt.size = PtrSize /\ lt.size <= lres[1].B /\ lt.align <= lres[1].A
    /\ ~lres[1].heap /\ lres[1].variant = "callback"

\* The largest power of two that divides n (n > 0).
LargestPow2Dividing(n) ==
    CHOOSE p \in { Pow2(k) : k \in 0..(WordBits - 1) } : n % p = 0 /\ n % (2 * p) # 0

\* C25: for a type with a virtual destructor the buffer alignment is the
\* largest power of two dividing Size (8 for 24, 40 and 56, 16 for 48, 32
\* for 32, 64 for 64, 128 for 128); for any other type it is the largest
\* power of two dividing min(alignof(T), Size); n & (~n + 1) is the largest
\* power of two dividing n for the other numbers n > 0 tried as well.
C25_BufferAlignment ==
    \A k \in 1..Len(lres) :
        /\ has_virtual_destructor(lt) =>
             /\ lres[k].A = LargestPow2Dividing(lsize)
             /\ (lsize \in {24, 40, 56}) => (lres[k].A = 8)
             /\ (lsize = 48) => (lres[k].A = 16)
             /\ (lsize \in {32, 64, 128}) => (lres[k].A = lsize)
        /\ ~has_virtual_destructor(lt) =>
             (lres[k].A = LargestPow2Dividing(min(lt.align, lsize)))
        /\ \A n \in {lt.size, lsize + lt.size, lsize + lt.align} :
             max_pow2_factor(n) = LargestPow2Dividing(n)

C25_Witness ==
    /\ Len(lres) = 1 /\ has_virtual_destructor(lt)
    /\ lsize = 48 /\ lres[1].A = 16 /\ lt.align = 16 /\ ~lres[1].heap

\* The step swaps owners i and j, both holding an object in their buffers
\* and both reporting stack allocation.
SwapsInline(i, j) ==
    /\ Swaps(i, j)
    /\ HoldsInline(i) /\ is_stack_allocated(Machine, i)
    /\ HoldsInline(j) /\ is_stack_allocated(Machine, j)

\* C26: in a swap of two inline owners each of the three relocations is
\* followed by the destruction of the object relocated from, so that the
\* temporary buffer holds no object when swap returns and the swap has
\* destroyed as many objects as it has constructed.
C26_SwapDestroysSources ==
    [][ \A i, j \in Slots : SwapsInline(i, j) =>
          /\ errs' = {}
          /\ "temp_not_destroyed" \notin last'.notes
          /\ "construct_over_live" \notin last'.notes ]_vars

\* The step is a move assignment of owner j to owner i or a swap of the two.
AssignsOrSwaps(i, j) ==
    \/ last'.op = "move_assign" /\ MoveAssign(i, j)
    \/ last'.op = "swap" /\ Swap(i, j)

\* C27: a move assignment or a swap never constructs an object in a buffer
\* that still holds an object, never relocates from storage whose object
\* has been destroyed, and never destroys an object twice.
C27_DestroyBeforeConstruct ==
    [][ \A i, j \in Slots : AssignsOrSwaps(i, j) =>
          /\ "construct_over_live" \notin last'.notes
          /\ errs' \cap {"read_dead", "destroy_dead", "double_destroy", "double_free"} = {} ]_vars

\* Owner j holds a live object and dereferences to it.
HoldsLive(j) ==
    /\ owner[j].alive
    /\ Pointee(Machine, owner[j].data).st = "live"
    /\ Deref(Machine, j).c # "junk"

\* The step hands the object of owner s to owner d in the placement it
\* had: a heap object stays in its allocation, untouched, at the same
\* address for the same view; an inline object is in the buffer of d.
KeepsPlacement(d, s) ==
    /\ owner'[d].data.k = owner[s].data.k
    /\ (owner[s].data.k = "heap") =>
         /\ owner'[d].data.id = owner[s].data.id
         /\ heap'[owner[s].data.id] = heap[owner[s].data.id]
         /\ (owner'[d].view = owner[s].view) => (owner'[d].data = owner[s].data)
    /\ (owner[s].data.k = "buf") =>
         /\ owner'[d].data.id = d
         /\ owner'[d].buf.st = "live"
         /\ \A h \in HeapIds : heap'[h].st = "live" => heap[h].st = "live"

\* C28: a move construction, a move assignment or a swap hands over every
\* live object in the placement it has: an inline object is inline in the
\* owner that receives it, a heap object stays heap-backed in the same
\* allocation and is not relocated.
C28_PlacementFixed ==
    [][ \A i, j \in Slots :
          /\ (HoldsLive(j) /\ (MoveInto(i, j) \/ Swaps(i, j))) => KeepsPlacement(i, j)
          /\ (HoldsLive(i) /\ Swaps(i, j)) => KeepsPlacement(j, i) ]_vars

\* The step is a.swap(a) on owner i, which is empty or holds a live object.
SelfSwaps(i) ==
    /\ last'.op = "swap" /\ Swap(i, i)
    /\ owner[i].data = NullPtr \/ HoldsLive(i)

\* C29: a.swap(a) leaves a dereferencing to the same value and dynamic
\* type, in the same placement, empty if it was empty, and neither
\* relocates from storage whose object has been destroyed nor constructs
\* over a live object.
C29_SelfSwapHarmless ==
    [][ \A i \in Slots : SelfSwaps(i) =>
          /\ Observed(After, i) = Observed(Machine, i)
          /\ "read_dead" \notin errs'
          /\ "construct_over_live" \notin last'.notes ]_vars

\* C30: an object stored in the buffer of an owner fits that owner's
\* buffer: its size (all elements of an array) is at most the capacity
\* B(T, Size) of the owner's own type T and its alignment at most the
\* buffer alignment A(T, Size); no factory constructs past the buffer.
C30_InlineObjectFits ==
    /\ "buffer_overflow" \notin errs
    /\ \A i \in Slots :
         (owner[i].alive /\ owner[i].buf.st # "none") =>
            /\ Attr(owner[i].buf.c).size * owner[i].buf.n <= owner[i].base.bufsz
            /\ owner[i].base.bufsz <= owner[i].base.B
            /\ Attr(owner[i].buf.c).align <= owner[i].base.A

====
